---- MODULE Spec2Model ----
(***************************************************************************)
(* DigitalPin (src/DigitalPin.cpp, src/DigitalPin.h): a handle on one GPIO *)
(* line of gpiochip0, opened through libgpiod.  The model holds the        *)
(* platform (open chip descriptors, line reservations, line levels), the   *)
(* DigitalPin objects, and the threads that call read() and write().       *)
(***************************************************************************)
EXTENDS Integers, Sequences, FiniteSets, TLC

\* ------------------------------------------------------------- bounds
NumLines == 2
NumHandles == 2
NumThreads == 2
MaxCycles == 2

Lines == 0 .. (NumLines - 1)
Handles == 1 .. NumHandles
Threads == 1 .. NumThreads
\* pin numbers given to the constructor: a negative one, the lines of the
\* chip, and one past the last line
PinNumbers == (-1) .. NumLines
Directions == {"Input", "Output"}
Names == {"", "LED"}

VARIABLES
    pins,      \* pins[h]: the DigitalPin object in slot h (its members, its lifetime)
    err,       \* err[h]: the exception the last constructor call in slot h threw,
               \* and the pin number that call was given
    fds,       \* slots whose gpiod_chip (descriptor of gpiochip0) is open
    owner,     \* owner[l]: who holds the request of line l
    level,     \* level[l]: electrical state of line l, 0 or 1
    pc,        \* pc[t]: where thread t is inside read()/write()
    call,      \* call[t]: the call thread t is making: handle, operation, value
    ret,       \* ret[t]: how thread t's last call ended (return value or exception)
    touched,   \* touched[t]: thread t's last call reached gpiod_line_get/set_value
    wdSeen,    \* wdSeen[h]: "failed" once a call on the object in slot h threw for its
               \* direction, "recovered" once a later call on it returned
    cycles,    \* cycles[l]: how many objects that held line l were destroyed,
               \* counted up to MaxCycles
    raw,       \* raw[t]: what gpiod_line_get/set_value returned to thread t's last
               \* call, 0 while the call has not reached it
    mainPc,    \* where main() of the driver is
    out        \* the messages main() has printed

vars == <<pins, err, fds, owner, level, pc, call, ret, touched, wdSeen, cycles, raw,
          mainPc, out>>

\* owner[l] is a slot of Handles, Free, or Ext (a consumer outside this program)
Free == 0
Ext == NumHandles + 1

\* a slot holding no object: before construction, after a throwing
\* constructor, after the destructor; name is the constructor's argument,
\* name_ the member
NoPin == [phase |-> "none", pinNumber_ |-> 0, direction_ |-> "Input", name |-> "",
          name_ |-> "", chip_ |-> "null", line_ |-> "null", mutex_ |-> 0]

NoErr == [what |-> "none", pinNumber |-> 0]

NoCall == [h |-> 1, op |-> "read", value |-> FALSE]

\* ------------------------------------------------------------- std::to_string
Digit(d) ==
    CASE d = 0 -> "0" [] d = 1 -> "1" [] d = 2 -> "2" [] d = 3 -> "3" [] d = 4 -> "4"
      [] d = 5 -> "5" [] d = 6 -> "6" [] d = 7 -> "7" [] d = 8 -> "8" [] OTHER -> "9"

RECURSIVE Decimal(_)
Decimal(n) == IF n < 10 THEN Digit(n) ELSE Decimal(n \div 10) \o Digit(n % 10)

to_string(n) == IF n < 0 THEN "-" \o Decimal(-n) ELSE Decimal(n)

\* a member initialiser that takes the name as given, empty or not
InitNameVerbatim(pinNumber, name) == name

\* the member initialiser of name_
InitName(pinNumber, name) == IF name = "" THEN "Pin" \o to_string(pinNumber) ELSE name

\* ------------------------------------------------------------- libgpiod
\* gpiod_chip_get_line: the offset is unsigned, a line exists below num_lines
LineExists(pinNumber) == pinNumber \in Lines

\* the result of gpiod_line_request not looked at
RequestNeverRejected(h) == FALSE

\* gpiod_line_request: the kernel refuses a line that is already requested
RequestRejected(h) == owner[pins[h].pinNumber_] # Free

\* gpiod_line_release on the object's line
LineReleased(h) == [l \in Lines |-> IF owner[l] = h THEN Free ELSE owner[l]]

TypeOK ==
    /\ \A h \in Handles : pins[h].phase \in {"none", "opened", "resolved", "live", "released"}
    /\ fds \subseteq Handles
    /\ \A l \in Lines : owner[l] \in Handles \cup {Free, Ext} /\ level[l] \in {0, 1}
    /\ \A t \in Threads : pc[t] \in {"idle", "lock", "check", "access"}
    /\ \A t \in Threads : raw[t] \in {-1, 0, 1}

Init ==
    /\ pins = [h \in Handles |-> NoPin]
    /\ err = [h \in Handles |-> NoErr]
    /\ fds = {}
    /\ owner = [l \in Lines |-> Free]
    /\ level \in [Lines -> {0, 1}]
    /\ pc = [t \in Threads |-> "idle"]
    /\ call = [t \in Threads |-> NoCall]
    /\ ret = [t \in Threads |-> "none"]
    /\ touched = [t \in Threads |-> FALSE]
    /\ wdSeen = [h \in Handles |-> "no"]
    /\ cycles = [l \in Lines |-> 0]
    /\ raw = [t \in Threads |-> 0]
    /\ mainPc = "outputPin"
    /\ out = {}

\* ------------------------------------------------------------- DigitalPin::DigitalPin
\* gpiod_chip_close(chip_): libgpiod releases the lines requested through the
\* chip object and closes its descriptor
ChipClosed(h) == fds \ {h}

\* a throwing exit that leaves the chip open
CtorThrowLeak(h, what) ==
    /\ fds' = fds
    /\ owner' = owner
    /\ pins' = [pins EXCEPT ![h] = NoPin]
    /\ err' = [err EXCEPT ![h] = [what |-> what, pinNumber |-> pins[h].pinNumber_]]

\* the throwing exits of the constructor after the chip was opened: close the
\* chip, then throw; the object never comes to exist
CtorThrow(h, what) ==
    /\ fds' = ChipClosed(h)
    /\ owner' = LineReleased(h)
    /\ pins' = [pins EXCEPT ![h] = NoPin]
    /\ err' = [err EXCEPT ![h] = [what |-> what, pinNumber |-> pins[h].pinNumber_]]

\* member initialisers, then gpiod_chip_open_by_number(0) and its null check
ConstructOpen(h, pinNumber, dir, name) ==
    /\ pins[h].phase = "none"
    /\ \E opened \in BOOLEAN :
         IF opened
         THEN /\ pins' = [pins EXCEPT ![h] =
                     [phase |-> "opened", pinNumber_ |-> pinNumber, direction_ |-> dir,
                      name |-> name, name_ |-> InitName(pinNumber, name),
                      chip_ |-> "chip0", line_ |-> "null", mutex_ |-> 0]]
              /\ fds' = fds \cup {h}
              /\ err' = [err EXCEPT ![h] = NoErr]
         ELSE /\ pins' = [pins EXCEPT ![h] = NoPin]
              /\ fds' = fds
              /\ err' = [err EXCEPT ![h] =
                     [what |-> "ControllerUnavailable", pinNumber |-> pinNumber]]
    /\ UNCHANGED <<owner, level, pc, call, ret, touched, wdSeen, cycles, raw>>

\* gpiod_chip_get_line(chip_, pinNumber_) and its null check
ConstructGetLine(h) ==
    /\ pins[h].phase = "opened"
    /\ IF LineExists(pins[h].pinNumber_)
       THEN /\ pins' = [pins EXCEPT ![h].phase = "resolved", ![h].line_ = "line"]
            /\ UNCHANGED <<fds, owner, err>>
       ELSE CtorThrow(h, "LineUnavailable")
    /\ UNCHANGED <<level, pc, call, ret, touched, wdSeen, cycles, raw>>

\* a request type chosen the wrong way round
RequestTypeSwapped(dir) == IF dir = "Input" THEN "DIRECTION_OUTPUT" ELSE "DIRECTION_INPUT"

\* config.request_type
RequestType(dir) == IF dir = "Input" THEN "DIRECTION_INPUT" ELSE "DIRECTION_OUTPUT"

\* gpiod_line_request(line_, &config, 0) and its result check; an output
\* request drives the line to the default value 0
ConstructRequest(h) ==
    /\ pins[h].phase = "resolved"
    /\ IF RequestRejected(h)
       THEN /\ CtorThrow(h, "ConfigurationFailed")
            /\ level' = level
       ELSE /\ pins' = [pins EXCEPT ![h].phase = "live"]
            /\ owner' = [owner EXCEPT ![pins[h].pinNumber_] = h]
            /\ level' = IF RequestType(pins[h].direction_) = "DIRECTION_OUTPUT"
                         THEN [level EXCEPT ![pins[h].pinNumber_] = 0]
                         ELSE level
            /\ UNCHANGED <<fds, err>>
    /\ UNCHANGED <<pc, call, ret, touched, wdSeen, cycles, raw>>

Construct(HS) ==
    \E h \in HS :
        \/ \E p \in PinNumbers, d \in Directions, n \in Names : ConstructOpen(h, p, d, n)
        \/ ConstructGetLine(h)
        \/ ConstructRequest(h)

\* ------------------------------------------------------------- DigitalPin::~DigitalPin
\* a thread is inside read()/write() of the object in slot h
InCall(t, h) == pc[t] # "idle" /\ call[t].h = h

\* a destructor that closes the chip first
DtorFirstClosesChip(h) ==
    /\ fds' = IF pins[h].chip_ # "null" THEN ChipClosed(h) ELSE fds
    /\ owner' = IF pins[h].chip_ # "null" THEN LineReleased(h) ELSE owner

\* a destructor that never releases the line
DtorFirstSkipped(h) == UNCHANGED <<fds, owner>>

\* if (line_) gpiod_line_release(line_);
DtorFirst(h) ==
    /\ owner' = IF pins[h].line_ # "null" THEN LineReleased(h) ELSE owner
    /\ fds' = fds

\* a destructor that never closes the chip
DtorSecondSkipped(h) == UNCHANGED <<fds, owner>>

\* if (chip_) gpiod_chip_close(chip_);
DtorSecond(h) ==
    /\ fds' = IF pins[h].chip_ # "null" THEN ChipClosed(h) ELSE fds
    /\ owner' = IF pins[h].chip_ # "null" THEN LineReleased(h) ELSE owner

\* the destructor runs on a fully constructed object that no thread is using
DestroyRelease(h) ==
    /\ pins[h].phase = "live"
    /\ \A t \in Threads : ~InCall(t, h)
    /\ DtorFirst(h)
    /\ pins' = [pins EXCEPT ![h].phase = "released"]
    /\ cycles' = [cycles EXCEPT ![pins[h].pinNumber_] = IF @ < MaxCycles THEN @ + 1 ELSE @]
    /\ UNCHANGED <<err, level, pc, call, ret, touched, wdSeen, raw>>

DestroyClose(h) ==
    /\ pins[h].phase = "released"
    /\ DtorSecond(h)
    /\ pins' = [pins EXCEPT ![h] = NoPin]
    /\ wdSeen' = [wdSeen EXCEPT ![h] = "no"]
    /\ UNCHANGED <<err, level, pc, call, ret, touched, cycles, raw>>

Destroy(HS) == \E h \in HS : DestroyRelease(h) \/ DestroyClose(h)

\* ------------------------------------------------------------- read / write
\* read()/write() entered without waiting for the mutex
LockNotAwaited(h) == TRUE

\* one mutex shared by every object
LockShared(h) == \A g \in Handles : pins[g].mutex_ = 0

\* std::lock_guard<std::mutex> lock(mutex_): blocks while the mutex is held
LockAvailable(h) == pins[h].mutex_ = 0

\* a lock_guard that keeps the mutex when the function returns
ReturnedStillLocked(h) == pins

\* the lock_guard's destructor when the function returns
Unlocked(h) == [pins EXCEPT ![h].mutex_ = 0]

\* a throw that leaves the mutex locked
UnwoundStillLocked(h) == pins

\* the lock_guard's destructor when the throw unwinds the function
Unwound(h) == [pins EXCEPT ![h].mutex_ = 0]

\* read() without its direction check
ReadUnchecked(h) == TRUE

\* if (direction_ != Direction::Input) throw
ReadDirectionOk(h) == pins[h].direction_ = "Input"

\* write() with the direction check of read()
WriteCheckedAsRead(h) == pins[h].direction_ = "Input"

\* if (direction_ != Direction::Output) throw
WriteDirectionOk(h) == pins[h].direction_ = "Output"

\* gpiod_line_get_value: the level of the line, or -1 when the read fails
RawValues(h) == {level[pins[h].pinNumber_], -1}

\* a call on the object returned after an earlier one threw
Recovered(h) == [wdSeen EXCEPT ![h] = IF @ = "no" THEN "no" ELSE "recovered"]

\* a thread enters read() or write(value) of a live object
Call(t, h, op, value) ==
    /\ pc[t] = "idle"
    /\ pins[h].phase = "live"
    /\ pc' = [pc EXCEPT ![t] = "lock"]
    /\ call' = [call EXCEPT ![t] = [h |-> h, op |-> op, value |-> value]]
    /\ ret' = [ret EXCEPT ![t] = "none"]
    /\ touched' = [touched EXCEPT ![t] = FALSE]
    /\ raw' = [raw EXCEPT ![t] = 0]
    /\ UNCHANGED <<pins, err, fds, owner, level, wdSeen, cycles>>

Lock(t) ==
    /\ pc[t] = "lock"
    /\ LockAvailable(call[t].h)
    /\ pins' = [pins EXCEPT ![call[t].h].mutex_ = t]
    /\ pc' = [pc EXCEPT ![t] = "check"]
    /\ UNCHANGED <<err, fds, owner, level, call, ret, touched, wdSeen, cycles, raw>>

\* the direction check of read(): throw, or go on to the line
ReadCheck(t) ==
    /\ pc[t] = "check" /\ call[t].op = "read"
    /\ IF ReadDirectionOk(call[t].h)
       THEN /\ pc' = [pc EXCEPT ![t] = "access"]
            /\ UNCHANGED <<pins, ret, wdSeen>>
       ELSE /\ pc' = [pc EXCEPT ![t] = "idle"]
            /\ pins' = Unwound(call[t].h)
            /\ ret' = [ret EXCEPT ![t] = "ReadOnOutput"]
            /\ wdSeen' = [wdSeen EXCEPT ![call[t].h] = "failed"]
    /\ UNCHANGED <<err, fds, owner, level, call, touched, cycles, raw>>

\* a read() that takes every non-zero result for a high line
NonZero(value) == value # 0

\* ... > 0
Positive(value) == value > 0

\* return gpiod_line_get_value(line_) > 0;
ReadGet(t) ==
    /\ pc[t] = "access" /\ call[t].op = "read"
    /\ \E r \in RawValues(call[t].h) :
         /\ raw' = [raw EXCEPT ![t] = r]
         /\ ret' = [ret EXCEPT ![t] = IF Positive(r) THEN "true" ELSE "false"]
    /\ touched' = [touched EXCEPT ![t] = TRUE]
    /\ pc' = [pc EXCEPT ![t] = "idle"]
    /\ pins' = Unlocked(call[t].h)
    /\ wdSeen' = Recovered(call[t].h)
    /\ UNCHANGED <<err, fds, owner, level, call, cycles>>

\* the direction check of write()
WriteCheck(t) ==
    /\ pc[t] = "check" /\ call[t].op = "write"
    /\ IF WriteDirectionOk(call[t].h)
       THEN /\ pc' = [pc EXCEPT ![t] = "access"]
            /\ UNCHANGED <<pins, ret, wdSeen>>
       ELSE /\ pc' = [pc EXCEPT ![t] = "idle"]
            /\ pins' = Unwound(call[t].h)
            /\ ret' = [ret EXCEPT ![t] = "WriteOnInput"]
            /\ wdSeen' = [wdSeen EXCEPT ![call[t].h] = "failed"]
    /\ UNCHANGED <<err, fds, owner, level, call, touched, cycles, raw>>

\* value ? 1 : 0
Wanted(value) == IF value THEN 1 ELSE 0

\* gpiod_line_set_value(line_, value ? 1 : 0): the line takes the value, or the
\* call fails and the line keeps its level
SetValue(h, value, done) ==
    IF done THEN [level EXCEPT ![pins[h].pinNumber_] = Wanted(value)]
    ELSE level

\* what gpiod_line_set_value returns: 0, or -1 when the call fails
SetResult(done) == IF done THEN 0 ELSE -1

\* a write() that throws when gpiod_line_set_value fails
WriteEndChecked(result) == IF result < 0 THEN "HardwareError" ELSE "returned"

\* the result of gpiod_line_set_value is not looked at: write() returns
WriteEnd(result) == "returned"

\* gpiod_line_set_value(...); then the end of write()
WriteSet(t) ==
    /\ pc[t] = "access" /\ call[t].op = "write"
    /\ \E done \in BOOLEAN :
         /\ level' = SetValue(call[t].h, call[t].value, done)
         /\ raw' = [raw EXCEPT ![t] = SetResult(done)]
         /\ ret' = [ret EXCEPT ![t] = WriteEnd(SetResult(done))]
    /\ touched' = [touched EXCEPT ![t] = TRUE]
    /\ pc' = [pc EXCEPT ![t] = "idle"]
    /\ pins' = Unlocked(call[t].h)
    /\ wdSeen' = Recovered(call[t].h)
    /\ UNCHANGED <<err, fds, owner, call, cycles>>

read(TS, HS) ==
    \E t \in TS :
        \/ \E h \in HS : Call(t, h, "read", FALSE)
        \/ Lock(t) /\ call[t].op = "read"
        \/ ReadCheck(t)
        \/ ReadGet(t)

write(TS, HS) ==
    \E t \in TS :
        \/ \E h \in HS, v \in BOOLEAN : Call(t, h, "write", v)
        \/ Lock(t) /\ call[t].op = "write"
        \/ WriteCheck(t)
        \/ WriteSet(t)

\* ------------------------------------------------------------- DigitalPin::getName
\* return name_;
getName(h) == pins[h].name_

\* ------------------------------------------------------------- the platform
\* a line this program drives: requested as an output by a live object
DrivenHere(l) ==
    \E h \in Handles : owner[l] = h /\ pins[h].direction_ = "Output"

\* whatever is wired to a line this program does not drive changes its level
ExtDrive(l) ==
    /\ ~DrivenHere(l)
    /\ level' = [level EXCEPT ![l] = 1 - level[l]]
    /\ UNCHANGED <<pins, err, fds, owner, pc, call, ret, touched, wdSeen, cycles, raw>>

\* another consumer requests a free line, or releases the line it holds
ExtRequest(l) ==
    /\ owner[l] = Free
    /\ owner' = [owner EXCEPT ![l] = Ext]
    /\ UNCHANGED <<pins, err, fds, level, pc, call, ret, touched, wdSeen, cycles, raw>>

ExtRelease(l) ==
    /\ owner[l] = Ext
    /\ owner' = [owner EXCEPT ![l] = Free]
    /\ UNCHANGED <<pins, err, fds, level, pc, call, ret, touched, wdSeen, cycles, raw>>

Platform == \E l \in Lines : ExtDrive(l) \/ ExtRequest(l) \/ ExtRelease(l)

\* ------------------------------------------------------------- specifications
\* every object, every thread
Next ==
    /\ \/ Construct(Handles) \/ Destroy(Handles)
       \/ read(Threads, Handles) \/ write(Threads, Handles)
       \/ Platform
    /\ UNCHANGED <<mainPc, out>>

Spec == Init /\ [][Next]_vars

\* one object through its whole lifetime, used by every thread
NextPin ==
    /\ \/ Construct({1}) \/ Destroy({1})
       \/ read(Threads, {1}) \/ write(Threads, {1})
       \/ Platform
    /\ UNCHANGED <<mainPc, out>>

SpecPin == Init /\ [][NextPin]_vars

\* the lifetimes of every object, no call in progress
NextLife ==
    /\ Construct(Handles) \/ Destroy(Handles) \/ Platform
    /\ UNCHANGED <<mainPc, out>>

SpecLife == Init /\ [][NextLife]_vars
\* ------------------------------------------------------------- objects in use
\* a constructed object on line p
LivePin(p, d, n) ==
    [phase |-> "live", pinNumber_ |-> p, direction_ |-> d, name |-> n,
     name_ |-> InitName(p, n), chip_ |-> "chip0", line_ |-> "line", mutex_ |-> 0]

\* the slots that can hold constructed objects at the same time: one per line
LiveSlots == {h \in Handles : h <= NumLines}

\* the objects have been constructed, each on a line of its own, in either
\* direction; no call has been made yet
InitCalls ==
    /\ \E f \in [LiveSlots -> Lines], d \in [LiveSlots -> Directions] :
         /\ \A h1, h2 \in LiveSlots : f[h1] = f[h2] => h1 = h2
         /\ pins = [h \in Handles |->
                      IF h \in LiveSlots THEN LivePin(f[h], d[h], "") ELSE NoPin]
         /\ owner = [l \in Lines |->
                       IF \E h \in LiveSlots : f[h] = l
                       THEN CHOOSE h \in LiveSlots : f[h] = l ELSE Free]
         /\ level \in {lv \in [Lines -> {0, 1}] :
                         \A h \in LiveSlots : d[h] = "Output" => lv[f[h]] = 0}
    /\ err = [h \in Handles |-> NoErr]
    /\ fds = LiveSlots
    /\ pc = [t \in Threads |-> "idle"]
    /\ call = [t \in Threads |-> NoCall]
    /\ ret = [t \in Threads |-> "none"]
    /\ touched = [t \in Threads |-> FALSE]
    /\ wdSeen = [h \in Handles |-> "no"]
    /\ cycles = [l \in Lines |-> 0]
    /\ raw = [t \in Threads |-> 0]
    /\ mainPc = "outputPin"
    /\ out = {}

\* every thread calls read() and write() on every object; the inputs change
NextCalls ==
    /\ \/ read(Threads, Handles) \/ write(Threads, Handles)
       \/ \E l \in Lines : ExtDrive(l)
    /\ UNCHANGED <<mainPc, out>>

SpecCalls == InitCalls /\ [][NextCalls]_vars

\* the same with fair scheduling: a thread inside a call takes its next step
\* sooner or later, and a thread waiting for a mutex that stays free takes
\* it sooner or later.  std::mutex gives no order among waiters, so a waiter
\* is promised nothing when the mutex is taken again each time it was freed;
\* nothing makes a thread start a call
SpecCallsFair ==
    /\ SpecCalls
    /\ \A t \in Threads :
         /\ WF_vars(/\ ReadCheck(t) \/ ReadGet(t) \/ WriteCheck(t) \/ WriteSet(t)
                    /\ UNCHANGED <<mainPc, out>>)
         /\ WF_vars(Lock(t) /\ UNCHANGED <<mainPc, out>>)

\* ------------------------------------------------------------- main
\* src/DigitalPinDriver.cpp: main() runs on one thread and owns two objects
MainThread == 1
outputPin == 1
inputPin == 2

\* std::cin >> command: the four commands, and "x" for any other character
Commands == {"1", "0", "r", "q", "x"}

\* everything but main()'s own state
pinVars == <<pins, err, fds, owner, level, pc, call, ret, touched, wdSeen, cycles, raw>>

\* a main() that goes on after a constructor threw
AfterConstructorIgnored(h, next) ==
    IF pins'[h].phase = "live" \/ err'[h].what # "none" THEN next ELSE mainPc

\* where main() is after a step of a constructor: at the next statement once
\* the object exists, leaving the try block once the constructor threw
AfterConstructor(h, next) ==
    IF pins'[h].phase = "live" THEN next
    ELSE IF err'[h].what # "none" THEN "unwind" ELSE mainPc

\* DigitalPin h(pin, dir, name): the two objects are given two different pin
\* numbers (17 and 27), here any two of the chip the model has
MainConstruct(h, dir, name) ==
    \/ \E p \in PinNumbers :
         /\ h = inputPin => p # pins[outputPin].pinNumber_
         /\ ConstructOpen(h, p, dir, name)
    \/ ConstructGetLine(h)
    \/ ConstructRequest(h)

MainOutputPin ==
    /\ mainPc = "outputPin"
    /\ MainConstruct(outputPin, "Output", "LED")
    /\ mainPc' = AfterConstructor(outputPin, "inputPin")
    /\ out' = out

MainInputPin ==
    /\ mainPc = "inputPin"
    /\ MainConstruct(inputPin, "Input", "Button")
    /\ mainPc' = AfterConstructor(inputPin, "loop")
    /\ out' = IF pins'[inputPin].phase = "live" THEN out \cup {"Setup complete."} ELSE out

\* std::cin >> command; switch (command): the call of the command starts, or
\* the command is done at once
MainCommand ==
    /\ mainPc = "loop"
    /\ \E c \in Commands :
         \/ /\ c = "1"
            /\ Call(MainThread, outputPin, "write", TRUE)
            /\ mainPc' = "call" /\ out' = out
         \/ /\ c = "0"
            /\ Call(MainThread, outputPin, "write", FALSE)
            /\ mainPc' = "call" /\ out' = out
         \/ /\ c = "r"
            /\ Call(MainThread, inputPin, "read", FALSE)
            /\ mainPc' = "call" /\ out' = out
         \/ /\ c = "q"
            /\ mainPc' = "leave" /\ out' = out
            /\ UNCHANGED pinVars
         \/ /\ c = "x"
            /\ mainPc' = "loop" /\ out' = out \cup {"Invalid command."}
            /\ UNCHANGED pinVars

\* a call ended with an exception
Threw(r) == r \notin {"true", "false", "returned"}

\* what the command prints after its call returned
Message(c, r) ==
    IF c.op = "read"
    THEN IF r = "true" THEN "Button state: Pressed" ELSE "Button state: Not pressed"
    ELSE IF c.value THEN "LED turned ON." ELSE "LED turned OFF."

\* the call of the command goes on; when it returns the command prints its
\* message and the loop takes the next command, when it throws the exception
\* leaves the while loop and the try block
MainCall ==
    /\ mainPc = "call"
    /\ \/ Lock(MainThread)
       \/ ReadCheck(MainThread) \/ ReadGet(MainThread)
       \/ WriteCheck(MainThread) \/ WriteSet(MainThread)
    /\ IF pc'[MainThread] # "idle"
       THEN mainPc' = mainPc /\ out' = out
       ELSE IF Threw(ret'[MainThread])
            THEN mainPc' = "unwind" /\ out' = out
            ELSE /\ mainPc' = "loop"
                 /\ out' = out \cup {Message(call[MainThread], ret'[MainThread])}

\* the try block is left, by an exception ("unwind") or after 'q' ("leave"):
\* the objects that exist are destroyed, inputPin first; then the handler
\* prints the error if there was an exception, and main() prints its last
\* line and returns
MainUnwind ==
    /\ mainPc \in {"unwind", "leave"}
    /\ \/ /\ Destroy({inputPin})
          /\ UNCHANGED <<mainPc, out>>
       \/ /\ pins[inputPin].phase = "none"
          /\ Destroy({outputPin})
          /\ UNCHANGED <<mainPc, out>>
       \/ /\ pins[inputPin].phase = "none" /\ pins[outputPin].phase = "none"
          /\ mainPc' = "exit"
          /\ out' = out \cup (IF mainPc = "unwind" THEN {"Error"} ELSE {})
                        \cup {"Exiting DigitalPin Driver Application."}
          /\ UNCHANGED pinVars

NextMain ==
    \/ MainOutputPin \/ MainInputPin
    \/ MainCommand \/ MainCall
    \/ MainUnwind
    \/ Platform /\ UNCHANGED <<mainPc, out>>

\* main() is one thread that keeps running: every step but the wait for a
\* command is taken sooner or later
SpecMain ==
    /\ Init
    /\ [][NextMain]_vars
    /\ WF_vars(MainOutputPin \/ MainInputPin \/ MainCall \/ MainUnwind)

\* ------------------------------------------------------------- properties
\* thread t is past the lock of the object in slot h: at the direction check
\* or at the gpiod call
InSection(t, h) == pc[t] \in {"check", "access"} /\ call[t].h = h

\* thread t takes a step of its current call
Steps(t) == pc'[t] # pc[t]

\* the line of the object in slot h
LineOf(h) == pins[h].pinNumber_

\* C1: on one object at most one thread is between the lock and the end of
\* read()/write() (direction check and gpiod_line_get/set_value), and that
\* thread holds the object's mutex.
C1_MutualExclusion ==
    \A h \in Handles :
        /\ \A t1, t2 \in Threads : InSection(t1, h) /\ InSection(t2, h) => t1 = t2
        /\ \A t \in Threads : InSection(t, h) => pins[h].mutex_ = t
        /\ pins[h].mutex_ # 0 => InSection(pins[h].mutex_, h)

\* a reader and a writer contend for one object: one is at the gpiod call,
\* the other waits for the mutex
C1_Witness ==
    \E t1, t2 \in Threads :
        /\ pc[t1] = "access" /\ pc[t2] = "lock"
        /\ call[t1].h = call[t2].h
        /\ call[t1].op # call[t2].op

\* C2: read() on an Output object always ends with the wrong-direction
\* exception and never reaches the hardware: no step of the call changes a line
\* level, a reservation or an open chip, the call never gets to
\* gpiod_line_get_value, and when it ends the object is as before the call.
C2_ReadOnOutput ==
    [][\A t \in Threads :
         (/\ pc[t] # "idle" /\ call[t].op = "read"
          /\ pins[call[t].h].direction_ = "Output"
          /\ Steps(t))
         => /\ level' = level /\ owner' = owner /\ fds' = fds
            /\ pc'[t] # "access"
            /\ pc[t] = "check" =>
                 /\ pc'[t] = "idle"
                 /\ ret'[t] = "ReadOnOutput"
                 /\ ~touched'[t]
                 /\ pins'[call[t].h] = [pins[call[t].h] EXCEPT !.mutex_ = 0]]_vars

\* a read() on a live Output object has thrown
C2_Witness ==
    \E t \in Threads :
        /\ pc[t] = "idle" /\ call[t].op = "read" /\ ret[t] = "ReadOnOutput"
        /\ ~touched[t]
        /\ pins[call[t].h].phase = "live"
        /\ pins[call[t].h].direction_ = "Output"
        /\ wdSeen[call[t].h] = "failed"

\* C3: write(v) on an Input object always ends with the wrong-direction
\* exception, for v = true and v = false, and never reaches the hardware: no
\* step of the call changes a line level, and the call never gets to
\* gpiod_line_set_value.
C3_WriteOnInput ==
    [][\A t \in Threads :
         (/\ pc[t] # "idle" /\ call[t].op = "write"
          /\ pins[call[t].h].direction_ = "Input"
          /\ Steps(t))
         => /\ level' = level /\ owner' = owner /\ fds' = fds
            /\ pc'[t] # "access"
            /\ pc[t] = "check" =>
                 /\ pc'[t] = "idle"
                 /\ ret'[t] = "WriteOnInput"
                 /\ ~touched'[t]]_vars

\* write(true) and write(false) on one live Input object have both thrown,
\* with the line high
C3_Witness ==
    \E t1, t2 \in Threads :
        /\ pc[t1] = "idle" /\ pc[t2] = "idle"
        /\ call[t1].op = "write" /\ call[t2].op = "write"
        /\ call[t1].value /\ ~call[t2].value
        /\ ret[t1] = "WriteOnInput" /\ ret[t2] = "WriteOnInput"
        /\ call[t1].h = call[t2].h
        /\ pins[call[t1].h].phase = "live"
        /\ pins[call[t1].h].direction_ = "Input"
        /\ level[LineOf(call[t1].h)] = 1

\* the constructor call in slot h leaves phase from, whatever the outcome
Leaves(h, from) == pins[h].phase = from /\ pins'[h].phase # from

\* C4: when the constructor throws (chip not opened, line missing, request
\* rejected) no object exists, the chip that call opened is closed and no line
\* is reserved for it; a line-unavailable error is for a pin that is no line.
C4_NoLeakOnFailure ==
    \A h \in Handles :
        err[h].what # "none" =>
            /\ err[h].what \in {"ControllerUnavailable", "LineUnavailable",
                                 "ConfigurationFailed"}
            /\ pins[h] = NoPin
            /\ h \notin fds
            /\ \A l \in Lines : owner[l] # h
            /\ err[h].what = "LineUnavailable" => ~LineExists(err[h].pinNumber)
            /\ err[h].what = "ConfigurationFailed" => LineExists(err[h].pinNumber)

\* one constructor call failed on a missing line and another on a rejected
\* request, both after opening the chip
C4_Witness ==
    \E h1, h2 \in Handles :
        /\ err[h1].what = "LineUnavailable"
        /\ err[h2].what = "ConfigurationFailed"

\* C5: the destructor of a constructed object first releases the line, with
\* the chip still open, and then closes the chip; it throws nothing.
C5_DestroyOrder ==
    [][\A h \in Handles :
         /\ Leaves(h, "live") =>
              /\ pins'[h].phase = "released"
              /\ owner[LineOf(h)] = h /\ owner'[LineOf(h)] = Free
              /\ h \in fds /\ h \in fds'
              /\ err'[h] = err[h]
         /\ Leaves(h, "released") =>
              /\ pins'[h] = NoPin
              /\ h \in fds /\ h \notin fds'
              /\ owner' = owner
              /\ err'[h] = err[h] /\ err[h].what = "none"]_vars

\* a destructor is between its two steps: line released, chip still open
C5_Witness ==
    \E h \in Handles :
        /\ pins[h].phase = "released"
        /\ owner[LineOf(h)] = Free
        /\ h \in fds

\* C6: construct then destroy leaves the line unreserved and the chip closed,
\* and a constructor that finds an existing line free succeeds, for either
\* direction and however many objects held the line before.
C6_Reconstruct ==
    [][\A h \in Handles :
         /\ Leaves(h, "live") => owner'[LineOf(h)] = Free
         /\ Leaves(h, "released") =>
              /\ h \notin fds'
              /\ \A l \in Lines : owner'[l] # h
         /\ (Leaves(h, "resolved") /\ owner[LineOf(h)] = Free) =>
              /\ pins'[h].phase = "live"
              /\ owner'[LineOf(h)] = h
              /\ h \in fds'
              /\ err'[h].what = "none"]_vars

\* an Input object and an Output object are live, each on a line that
\* MaxCycles earlier objects held and gave back
C6_Witness ==
    \E h1, h2 \in Handles :
        /\ pins[h1].phase = "live" /\ pins[h2].phase = "live"
        /\ pins[h1].direction_ = "Input" /\ pins[h2].direction_ = "Output"
        /\ cycles[LineOf(h1)] = MaxCycles /\ cycles[LineOf(h2)] = MaxCycles

\* C7: a constructor whose line is reserved, by another object or by another
\* consumer, throws configuration-failed and changes no reservation; no two
\* live objects are on the same line, and a live object holds its line.
C7_ExclusiveLine ==
    /\ [](\A h1, h2 \in Handles :
            (/\ pins[h1].phase = "live" /\ pins[h2].phase = "live"
             /\ LineOf(h1) = LineOf(h2)) => h1 = h2)
    /\ [](\A h \in Handles : pins[h].phase = "live" => owner[LineOf(h)] = h)
    /\ [][\A h \in Handles :
            (Leaves(h, "resolved") /\ owner[LineOf(h)] # Free) =>
                /\ pins'[h] = NoPin
                /\ err'[h] = [what |-> "ConfigurationFailed", pinNumber |-> LineOf(h)]
                /\ owner' = owner]_vars

\* an object is live on a line and a constructor call for the same pin
\* number has thrown configuration-failed
C7_Witness ==
    \E h1, h2 \in Handles :
        /\ h1 # h2
        /\ pins[h1].phase = "live" /\ owner[LineOf(h1)] = h1
        /\ pins[h2].phase = "none"
        /\ err[h2] = [what |-> "ConfigurationFailed", pinNumber |-> LineOf(h1)]

\* the operation of the call matches the direction of its object
Matching(t) ==
    \/ call[t].op = "read" /\ pins[call[t].h].direction_ = "Input"
    \/ call[t].op = "write" /\ pins[call[t].h].direction_ = "Output"

\* C8: when write(v) on an Output object returns without an exception, the
\* line is at v: high for true, low for false.
C8_WriteRoundTrip ==
    [][\A t \in Threads :
         (/\ pc[t] = "access" /\ call[t].op = "write"
          /\ pc'[t] = "idle" /\ ret'[t] = "returned")
         => level'[LineOf(call[t].h)] = Wanted(call[t].value)]_vars

\* C9: of write(true) and write(false) made by two threads on one Output
\* object, the one that holds the lock last decides the line: when it returns
\* after the other has returned, the line is at its value; and a line is
\* never at anything but low or high.
C9_LastWriterWins ==
    /\ [](\A l \in Lines : level[l] \in {0, 1})
    /\ [][\A t1, t2 \in Threads :
            (/\ t1 # t2
             /\ pc[t1] = "access" /\ call[t1].op = "write" /\ pc'[t1] = "idle"
             /\ pc[t2] = "idle" /\ call[t2].op = "write" /\ ret[t2] = "returned"
             /\ call[t2].h = call[t1].h
             /\ call[t2].value # call[t1].value)
            => level'[LineOf(call[t1].h)] = Wanted(call[t1].value)]_vars

\* C10: a wrong-direction throw leaves the object usable: the throwing step
\* frees the mutex and changes nothing else of the object, no reservation, no
\* open chip and no line level; a call whose operation matches the direction
\* passes the check, returns a value and frees the mutex.
C10_UsableAfterThrow ==
    [][\A t \in Threads :
         /\ (pc[t] = "check" /\ pc'[t] = "idle") =>
              /\ ret'[t] \in {"ReadOnOutput", "WriteOnInput"}
              /\ pins'[call[t].h] = [pins[call[t].h] EXCEPT !.mutex_ = 0]
              /\ owner' = owner /\ fds' = fds /\ level' = level
         /\ (pc[t] = "check" /\ Steps(t) /\ Matching(t)) => pc'[t] = "access"
         /\ (pc[t] = "access" /\ Steps(t)) =>
              /\ Matching(t)
              /\ pc'[t] = "idle"
              /\ ret'[t] \in {"true", "false", "returned"}
              /\ pins'[call[t].h].mutex_ = 0]_vars

\* on a live object a call threw for its direction and a later call returned
\* a value; the mutex is free
C10_Witness ==
    \E h \in Handles, t \in Threads :
        /\ pins[h].phase = "live"
        /\ wdSeen[h] = "recovered"
        /\ pins[h].mutex_ = 0
        /\ pc[t] = "idle" /\ call[t].h = h
        /\ ret[t] \in {"true", "false", "returned"}

\* the object in slot h holds the request of a line
Reserved(h) == \E l \in Lines : owner[l] = h

\* C11: an object holds its line request exactly while its chip is open and
\* it is constructed and not being destroyed; a constructed object has its
\* chip open and its own line requested through non-null chip_ and line_, and
\* no line is held through a closed chip.
C11_HandlesPaired ==
    \A h \in Handles :
        /\ Reserved(h) <=> (h \in fds /\ pins[h].phase = "live")
        /\ pins[h].phase = "live" =>
             /\ owner[LineOf(h)] = h
             /\ pins[h].chip_ # "null" /\ pins[h].line_ # "null"
        /\ Reserved(h) => h \in fds

\* one object is constructed and holds its line through its open chip while
\* the destructor of another has released the line and not yet closed the chip
C11_Witness ==
    \E h1, h2 \in Handles :
        /\ pins[h1].phase = "live" /\ owner[LineOf(h1)] = h1 /\ h1 \in fds
        /\ pins[h2].phase = "released" /\ ~Reserved(h2) /\ h2 \in fds

\* C12: in the command loop of main(), when the read() or write() call of a
\* command fails (gpiod_line_get/set_value returns an error, or the call
\* throws), the error is printed and the loop takes the next command.
C12_FailureReported ==
    [][(/\ mainPc = "call" /\ pc'[MainThread] = "idle"
        /\ raw'[MainThread] < 0 \/ Threw(ret'[MainThread]))
       => /\ "Error" \in out'
          /\ mainPc' = "loop"]_vars

\* a constructor of main() threw
CtorFailed == err[outputPin].what # "none" \/ err[inputPin].what # "none"

\* C14: when the constructor of outputPin or of inputPin throws, main() never
\* reaches the command loop and makes no read() or write() call: it leaves the
\* try block, prints the error and its last line with no object left and
\* nothing open, and it does get there.
C14_StartupFailure ==
    /\ [](CtorFailed =>
            /\ mainPc \in {"unwind", "exit"}
            /\ "Setup complete." \notin out
            /\ pc[MainThread] = "idle" /\ call[MainThread] = NoCall
            /\ ret[MainThread] = "none" /\ ~touched[MainThread]
            /\ mainPc = "exit" =>
                 /\ "Error" \in out
                 /\ fds = {} /\ \A h \in Handles : pins[h].phase = "none")
    /\ (CtorFailed ~> mainPc = "exit")

\* outputPin was constructed, the request of inputPin's line was rejected,
\* outputPin was destroyed on the way out and main() has printed the error
C14_Witness ==
    /\ mainPc = "exit"
    /\ err[inputPin].what = "ConfigurationFailed"
    /\ "Error" \in out
    /\ \E l \in Lines : cycles[l] = 1
    /\ ret[MainThread] = "none"

\* decimal notation written out from the most significant digit
DigitChars == <<"0", "1", "2", "3", "4", "5", "6", "7", "8", "9">>

RECURSIVE TopPower(_)
TopPower(n) == IF n < 10 THEN 1 ELSE 10 * TopPower(n \div 10)

RECURSIVE DigitsFrom(_, _)
DigitsFrom(n, p) ==
    IF p = 1 THEN DigitChars[n + 1]
    ELSE DigitChars[(n \div p) + 1] \o DigitsFrom(n % p, p \div 10)

DecimalText(n) ==
    IF n < 0 THEN "-" \o DigitsFrom(-n, TopPower(-n)) ELSE DigitsFrom(n, TopPower(n))

\* C13: getName() returns the name the constructor was given when that is
\* not empty, and "Pin" followed by the pin number in decimal when it is
\* empty: name_ holds that from the member initialiser on; what getName()
\* returns does not change while the object lives, whatever read() and
\* write() calls are made on it.
C13_Label ==
    /\ [](\A h \in Handles :
            pins[h].phase # "none" =>
              getName(h) = IF pins[h].name # "" THEN pins[h].name
                           ELSE "Pin" \o DecimalText(pins[h].pinNumber_))
    /\ [][\A h \in Handles :
            pins[h].phase = "live" /\ pins'[h].phase = "live"
              => getName(h)' = getName(h)]_vars

\* an object constructed without a name has its default name after a call on
\* it threw and a later call returned
C13_Witness ==
    \E h \in Handles, t \in Threads :
        /\ pins[h].phase = "live" /\ pins[h].name = ""
        /\ getName(h) = "Pin1"
        /\ wdSeen[h] = "recovered"
        /\ pc[t] = "idle" /\ call[t].h = h /\ touched[t]

\* C15: calls on two different objects do not touch each other: a thread
\* waiting for the mutex of an object can take it whenever no thread is inside
\* read()/write() of that same object, whoever is inside a call on another
\* object; and no step of a call on one object changes another object (its
\* members, direction included), the level of another object's line, or any
\* line request.
C15_Independent ==
    /\ [](\A t \in Threads :
            (pc[t] = "lock" /\ \A u \in Threads : ~InSection(u, call[t].h))
              => ENABLED Lock(t))
    /\ [][\A t \in Threads :
            Steps(t) =>
              /\ owner' = owner
              /\ \A g \in Handles \ {call'[t].h} :
                   /\ pins'[g] = pins[g]
                   /\ pins[g].phase = "live" => level'[LineOf(g)] = level[LineOf(g)]]_vars

\* two threads are at the gpiod call of two different objects at once, one
\* reading and one writing
C15_Witness ==
    \E t1, t2 \in Threads :
        /\ call[t1].h # call[t2].h
        /\ pc[t1] = "access" /\ call[t1].op = "write"
        /\ pc[t2] = "access" /\ call[t2].op = "read"

\* C16: the constructor opens the chip, then gets the line, then requests it,
\* and stops at the first step that fails.  A failed open throws
\* controller-unavailable with no chip opened and no line touched; getting a
\* line that does not exist throws line-unavailable with no request made; a
\* rejected request throws configuration-failed; an accepted one makes the
\* object.  The line is requested as an input exactly for direction Input: the
\* request leaves its level alone, while an output request drives it low.
C16_ConstructOrder ==
    [][\A h \in Handles :
         /\ pins[h].phase = "none" => pins'[h].phase \in {"none", "opened"}
         /\ Leaves(h, "none") =>
              /\ h \notin fds /\ fds' = fds \cup {h}
              /\ err'[h] = NoErr
              /\ owner' = owner /\ level' = level
         /\ (pins[h].phase = "none" /\ pins'[h].phase = "none" /\ err'[h] # err[h]) =>
              /\ err'[h].what = "ControllerUnavailable"
              /\ fds' = fds /\ owner' = owner /\ level' = level
         /\ Leaves(h, "opened") =>
              /\ level' = level /\ owner' = owner
              /\ IF LineExists(LineOf(h))
                 THEN /\ pins'[h].phase = "resolved" /\ pins'[h].line_ # "null"
                      /\ fds' = fds /\ err'[h] = err[h]
                 ELSE /\ pins'[h].phase = "none"
                      /\ err'[h].what = "LineUnavailable"
                      /\ fds' = fds \ {h}
         /\ Leaves(h, "resolved") =>
              IF owner[LineOf(h)] = Free
              THEN /\ pins'[h].phase = "live"
                   /\ owner' = [owner EXCEPT ![LineOf(h)] = h]
                   /\ fds' = fds /\ err'[h] = err[h]
                   /\ level' = IF pins[h].direction_ = "Input" THEN level
                                ELSE [level EXCEPT ![LineOf(h)] = 0]
              ELSE /\ pins'[h].phase = "none"
                   /\ err'[h].what = "ConfigurationFailed"
                   /\ owner' = owner /\ level' = level
                   /\ fds' = fds \ {h}]_vars

\* an Input object was made on a line that is high, and in another slot the
\* chip could not be opened
C16_Witness ==
    \E h1, h2 \in Handles :
        /\ pins[h1].phase = "live" /\ pins[h1].direction_ = "Input"
        /\ level[LineOf(h1)] = 1
        /\ cycles[LineOf(h1)] = 0
        /\ pins[h2].phase = "none" /\ err[h2].what = "ControllerUnavailable"

\* C17: read() on an Input object returns true exactly when the value
\* gpiod_line_get_value gave it is greater than zero, false when that value
\* is zero or negative (the error value -1); that value is the level of the
\* line or -1, and no step of the call changes the level of any line.
C17_ReadValue ==
    [][\A t \in Threads :
         (/\ pc[t] # "idle" /\ call[t].op = "read"
          /\ pins[call[t].h].direction_ = "Input"
          /\ Steps(t))
         => /\ level' = level
            /\ pc[t] = "access" =>
                 /\ pc'[t] = "idle" /\ touched'[t]
                 /\ raw'[t] \in {level[LineOf(call[t].h)], -1}
                 /\ ret'[t] = "true" <=> raw'[t] > 0
                 /\ ret'[t] = "false" <=> raw'[t] <= 0]_vars

\* read() returned false because gpiod_line_get_value failed, on a line that
\* is high
C17_Witness ==
    \E t \in Threads :
        /\ pc[t] = "idle" /\ call[t].op = "read"
        /\ raw[t] = -1 /\ ret[t] = "false"
        /\ level[LineOf(call[t].h)] = 1

\* C20: write(v) on an Output object never ends with a hardware error: the
\* step that calls gpiod_line_set_value ends the call with a normal return
\* whatever that call returned; when it failed the levels of all lines are as
\* before; the step frees the mutex and changes nothing else of the object,
\* no line request and no open chip, so the object can be called again.
C20_WriteNeverFails ==
    [][\A t \in Threads :
         (pc[t] = "access" /\ call[t].op = "write" /\ Steps(t))
         => /\ pins[call[t].h].direction_ = "Output"
            /\ pc'[t] = "idle" /\ touched'[t]
            /\ ret'[t] = "returned"
            /\ raw'[t] \in {0, -1}
            /\ raw'[t] < 0 => level' = level
            /\ pins'[call[t].h] = [pins[call[t].h] EXCEPT !.mutex_ = 0]
            /\ pins'[call[t].h].phase = "live"
            /\ owner' = owner /\ fds' = fds]_vars

\* write(true) returned normally although gpiod_line_set_value failed: the
\* line is still low, the object is constructed and its mutex free
C20_Witness ==
    \E t \in Threads :
        /\ pc[t] = "idle" /\ call[t].op = "write" /\ call[t].value
        /\ raw[t] = -1 /\ ret[t] = "returned"
        /\ level[LineOf(call[t].h)] = 0
        /\ pins[call[t].h].phase = "live" /\ pins[call[t].h].mutex_ = 0

\* thread t is inside a call and can take its next step
CanStep(t) ==
    \/ pc[t] = "lock" /\ ENABLED Lock(t)
    \/ pc[t] \in {"check", "access"}

\* C18 as stated: with fair scheduling every read()/write() call gets the
\* mutex and ends, by a return or a throw.  A thread waits at the lock only
\* while another thread is inside read()/write() of the same object; every
\* step that ends a call leaves the mutex free; and whenever calls are in
\* progress one of them can take a step.
C18_Completes ==
    /\ \A t \in Threads : (pc[t] # "idle") ~> (pc[t] = "idle")
    /\ [](\A t \in Threads :
            (pc[t] = "lock" /\ ~ENABLED Lock(t))
              => \E u \in Threads \ {t} : InSection(u, call[t].h))
    /\ []((\E t \in Threads : pc[t] # "idle") => \E t \in Threads : CanStep(t))
    /\ [][\A t \in Threads :
            (pc[t] # "idle" /\ pc'[t] = "idle") => pins'[call[t].h].mutex_ = 0]_vars

\* C18: with fair scheduling every read()/write() call that has the mutex
\* ends, by a return or a throw, and while a thread waits for the mutex of an
\* object some thread, the waiter or another, gets past the lock of that
\* object: the mutex is always granted to someone, not to every waiter.  A
\* thread waits at the lock only while another thread is inside
\* read()/write() of the same object; every step that ends a call leaves the
\* mutex free; and whenever calls are in progress one of them can take a step.
C18_HolderCompletes ==
    /\ \A t \in Threads : (pc[t] \in {"check", "access"}) ~> (pc[t] = "idle")
    /\ \A t \in Threads :
         (pc[t] = "lock") ~> (\E u \in Threads : InSection(u, call[t].h))
    /\ [](\A t \in Threads :
            (pc[t] = "lock" /\ ~ENABLED Lock(t))
              => \E u \in Threads \ {t} : InSection(u, call[t].h))
    /\ []((\E t \in Threads : pc[t] # "idle") => \E t \in Threads : CanStep(t))
    /\ [][\A t \in Threads :
            (pc[t] # "idle" /\ pc'[t] = "idle") => pins'[call[t].h].mutex_ = 0]_vars

\* a thread waits for the mutex of an object while another thread, past the
\* lock, is at the direction check of a call on it
C18_Witness ==
    \E t, u \in Threads :
        /\ pc[t] = "lock" /\ pc[u] = "check"
        /\ call[u].h = call[t].h
        /\ pins[call[t].h].mutex_ = u

\* C19: over all constructor calls, failing at any step or not, and all
\* destructor calls: the chip of a slot is opened only by the constructor's
\* open, stays open while the constructor or the object or the destructor is
\* there, and is closed exactly when that ends, by the one close on the path
\* taken, which always finds it open; a line comes to be held only through an
\* accepted request and is given up only by the destructor's release, which
\* always finds it held, so that the later close has no line left to release
\* and a throwing constructor releases none; once the slot is empty its chip
\* is closed and it holds no line.
C19_OpenCloseMatched ==
    /\ [](\A h \in Handles :
            /\ pins[h].phase = "none" => h \notin fds /\ ~Reserved(h)
            /\ pins[h].phase # "none" => h \in fds)
    /\ [][\A h \in Handles :
            /\ (h \notin fds /\ h \in fds') => Leaves(h, "none")
            /\ (h \in fds /\ h \notin fds') =>
                 /\ pins[h].phase \in {"opened", "resolved", "released"}
                 /\ pins'[h].phase = "none"
            /\ (pins[h].phase # "none" /\ pins'[h].phase = "none") =>
                 h \in fds /\ h \notin fds'
            /\ (pins[h].phase \in {"opened", "resolved"} /\ pins'[h].phase = "none") =>
                 owner' = owner
            /\ \A l \in Lines :
                 /\ (owner[l] # h /\ owner'[l] = h) =>
                      /\ pins[h].phase = "resolved" /\ pins'[h].phase = "live"
                      /\ l = LineOf(h) /\ owner[l] = Free
                 /\ (owner[l] = h /\ owner'[l] # h) =>
                      /\ Leaves(h, "live") /\ l = LineOf(h) /\ owner'[l] = Free
            /\ Leaves(h, "live") =>
                 /\ pins'[h].phase = "released"
                 /\ owner[LineOf(h)] = h /\ owner'[LineOf(h)] = Free
            /\ Leaves(h, "released") => ~Reserved(h) /\ owner' = owner]_vars

\* every lifetime has ended, after constructors that threw and objects that
\* were destroyed: no chip is open and no line is held by the program
C19_Witness ==
    /\ \A h \in Handles : pins[h].phase = "none"
    /\ fds = {}
    /\ \A l \in Lines : owner[l] \notin Handles
    /\ \E l \in Lines : cycles[l] = MaxCycles
    /\ \E h \in Handles : err[h].what = "LineUnavailable"
    /\ \E h \in Handles : err[h].what = "ConfigurationFailed"
====
